---- MODULE Spec2Model ----
(***************************************************************************)
(* go-grab: the "grab" command (downloadFile), the chunked download engine *)
(* (DownloadInChunks / DownloadChunk / Chunk.Download / Chunk.WriteToFile),*)
(* the streaming path (StreamBufInChunks), the metadata side file and the  *)
(* worker pool (workers.WorkerPool).                                       *)
(*                                                                         *)
(* Bytes of the remote resource are identified by their source offset: the *)
(* byte at offset k has value k+1, and 0 is a hole of the output file.     *)
(***************************************************************************)
EXTENDS Integers, Sequences, FiniteSets, TLC

\* ------------------------------------------------------------------ bounds
\* largest Content-Length the probed server announces
MaxSize == 5
\* largest value of the --chunk-size flag (ChunkSizeMB)
MaxChunkSizeMB == 2
\* bytes per "MB" of the flag, scaled down from 1<<20
BytesPerMB == 2
\* largest runtime.NumCPU()
MaxCPU == 2
\* longest body the server sends on the streaming path
MaxBody == 2
\* most bytes io.ReadAll has read of a chunk's body when it returns an error
MaxPartial == 1
\* largest size / chunk size of the range computation checked on its own
MaxRangeSize == 12
MaxRangeChunkSize == 5

\* -------------------------------------------------------- program constants
\* maxRetries := 3 in DownloadChunk
maxRetries == 3
\* maxRetries := 3 in downloadFile (streaming loop)
streamMaxRetries == 3

VARIABLES
    pc,             \* position of the main goroutine in downloadFile / Run
    exitCause,      \* why log.Fatal ended the process ("" while it runs)
    ChunkSizeMB,    \* the --chunk-size flag
    NumCPU,         \* runtime.NumCPU()
    probeErr,       \* error returned by getFileInfo
    Size,           \* fi.Size
    AcceptsRanges,  \* fi.AcceptsRanges
    ChunkSize,      \* fi.ChunkSize (0 until set)
    file,           \* content of the output file (sequence of bytes)
    fileState,      \* "none" | "open" | "closed"
    fileOff,        \* cursor of fi.File (used by io.Copy)
    r,              \* loop variable r of the streaming retry loop
    streamLog,      \* history: result of every StreamBufInChunks call
    MissedChunks,   \* fi.Metadata.MissedChunks
    metaFile,       \* "absent" | "present": the .meta.json side file
    metaLog,        \* history: results of os.Create in SaveMetaData
    deferRemove,    \* defer os.Remove(p) registered
    d,              \* the FileMetadata handed to SaveMetaData
    metaJSON,       \* content of the file at the path of Save/ReadMetaData
    m,              \* what ReadMetaData returned
    Tasks,          \* wp.Tasks: sequence of chunk indices
    Concurrency,    \* wp.Concurrency
    tasksch,        \* wp.tasksch: buffered channel content
    chClosed,       \* close(wp.tasksch) done
    sent,           \* number of tasks Run has sent
    wg,             \* wp.wg counter
    wpc,            \* per worker goroutine: position
    wtask,          \* per worker: index of the chunk of the task it runs
    wr,             \* per worker: loop variable r of DownloadChunk
    wsnap,          \* per worker: slice header read by append
    chunks,         \* per chunk index: the Chunk value of its task (c)
    fetchLog,       \* per chunk index: history of the Download calls' outcomes
    execCount,      \* per chunk index: times its ExecFunc was started
    finished,       \* per chunk index: times its ExecFunc returned
    written         \* per chunk index: WriteAt calls that succeeded

mainVars == <<pc, exitCause, ChunkSizeMB, NumCPU, probeErr, Size, AcceptsRanges,
              ChunkSize, file, fileState, fileOff, r, streamLog>>
jsonVars == <<d, metaJSON, m>>
metaVars == <<MissedChunks, metaFile, metaLog, deferRemove, jsonVars>>
poolVars == <<Tasks, Concurrency, tasksch, chClosed, sent, wg>>
workerVars == <<wpc, wtask, wr, wsnap>>
chunkVars == <<chunks, fetchLog, execCount, finished, written>>
vars == <<mainVars, metaVars, poolVars, workerVars, chunkVars>>

WorkerIds == 1..MaxCPU

\* ----------------------------------------------------------------- helpers
Min(a, b) == IF a <= b THEN a ELSE b

\* the bytes of the resource at offsets lo..hi (inclusive)
Bytes(lo, hi) == [k \in 1..(hi - lo + 1) |-> lo + k]

Prefixes(s) == {SubSeq(s, 1, k) : k \in 0..Len(s)}

\* a nil []byte and a non-nil one
NilData == [isNil |-> TRUE, b |-> <<>>]
Data(b) == [isNil |-> FALSE, b |-> b]

\* (mutant) a write at the end of the file, as File.Write on a
\* shared cursor would do
WriteAt_AtCursor(f, b, off) == f \o b

\* os.File.WriteAt(b, off): the file grows with holes up to off
WriteAt(f, b, off) ==
    [k \in 1..(IF off + Len(b) > Len(f) THEN off + Len(b) ELSE Len(f)) |->
        IF k > off /\ k <= off + Len(b) THEN b[k - off]
        ELSE IF k <= Len(f) THEN f[k] ELSE 0]

\* (mutant) the quotient is rounded down instead of up
TotalFileChunks_Floor(size, chunkSize) == size \div chunkSize

\* int(math.Ceil(float64(fi.Size) / fi.ChunkSize)), for size > 0, chunkSize > 0
TotalFileChunks(size, chunkSize) == (size + chunkSize - 1) \div chunkSize

\* (mutant) the end of the last range is not cut back to size - 1
ChunkRange_NoClamp(i, chunkSize, size) ==
    [Start |-> i * chunkSize, End |-> i * chunkSize + chunkSize - 1]

\* the byte range Chunk.Download computes for chunk index i
ChunkRange(i, chunkSize, size) ==
    LET start == i * chunkSize
        end == start + chunkSize - 1
    IN  IF end >= size THEN [Start |-> start, End |-> size - 1]
        ELSE IF i = 0 THEN [Start |-> 0, End |-> end]
        ELSE [Start |-> start, End |-> end]

\* c := &Chunk{Index: i}
NewChunk(i) == [Index |-> i, Start |-> 0, End |-> 0, Data |-> NilData]

\* the process is running (log.Fatal has not ended it, main has not returned)
Running == pc \notin {"fatal", "done"}

\* ------------------------------------------------- encoding/json, as used by
\* SaveMetaData and ReadMetaData
\* the longest URL and the longest list of missed chunks of the metadata checked
MaxURLLen == 2
MaxMissed == 2

\* all sequences over S of length at most n
SeqsUpTo(S, n) == UNION {[1..k -> S] : k \in 0..n}

\* a []Chunk is nil or holds a sequence of chunks
NilSlice == [isNil |-> TRUE, s |-> <<>>]
Slice(s) == [isNil |-> FALSE, s |-> s]

\* the FileMetadata getFileInfo builds, and the nil *FileMetadata
ZeroMetadata ==
    [URL |-> <<>>, MissedChunks |-> Slice(<<>>), TotalSize |-> 0, DownloadedSize |-> 0]
NilMetadata == [isNil |-> TRUE, v |-> ZeroMetadata]

\* a JSON number: the decimal digits of a non-negative integer
RECURSIVE EncodeInt(_)
EncodeInt(n) == IF n < 10 THEN <<n>> ELSE EncodeInt(n \div 10) \o <<n % 10>>
RECURSIVE DecodeInt(_)
DecodeInt(ds) ==
    IF Len(ds) = 1 THEN ds[1]
    ELSE 10 * DecodeInt(SubSeq(ds, 1, Len(ds) - 1)) + ds[Len(ds)]

\* a string is a sequence of bytes; the strings of the model hold no
\* multi-byte sequence, so a byte of 0x80 or more is not valid UTF-8
ValidUTF8(s) == \A k \in 1..Len(s) : s[k] < 128

\* a JSON string as the encoder writes it: '"' and '\' behind a backslash,
\* '<', '>' and '&' as \u00XX, \ufffd for every byte that is not valid UTF-8
\* (the four hex digits are kept as the number they denote), any other byte
\* as it is
RECURSIVE EncodeString(_)
EncodeString(s) ==
    IF s = <<>> THEN <<>>
    ELSE (IF Head(s) >= 128 THEN <<92, 117, 65533>>
          ELSE IF Head(s) \in {34, 92} THEN <<92, Head(s)>>
          ELSE IF Head(s) \in {38, 60, 62} THEN <<92, 117, Head(s)>>
          ELSE <<Head(s)>>)
         \o EncodeString(Tail(s))

\* the decoder undoes the escapes; U+FFFD becomes its UTF-8 bytes EF BF BD
RECURSIVE DecodeString(_)
DecodeString(j) ==
    IF j = <<>> THEN <<>>
    ELSE IF Head(j) # 92 THEN <<Head(j)>> \o DecodeString(Tail(j))
    ELSE IF j[2] # 117 THEN <<j[2]>> \o DecodeString(SubSeq(j, 3, Len(j)))
    ELSE (IF j[3] = 65533 THEN <<239, 191, 189>> ELSE <<j[3]>>)
         \o DecodeString(SubSeq(j, 4, Len(j)))

\* a []byte is written as a base64 string: three bytes give four digits of
\* six bits, and the last group is padded with '=' (written 64 here)
RECURSIVE EncodeBase64(_)
EncodeBase64(b) ==
    IF Len(b) = 0 THEN <<>>
    ELSE IF Len(b) = 1 THEN
        <<b[1] \div 4, (b[1] % 4) * 16, 64, 64>>
    ELSE IF Len(b) = 2 THEN
        <<b[1] \div 4, (b[1] % 4) * 16 + b[2] \div 16, (b[2] % 16) * 4, 64>>
    ELSE <<b[1] \div 4, (b[1] % 4) * 16 + b[2] \div 16,
           (b[2] % 16) * 4 + b[3] \div 64, b[3] % 64>>
         \o EncodeBase64(SubSeq(b, 4, Len(b)))

\* (mutant) the padding is decoded as if it were the digit 0
RECURSIVE DecodeBase64_PaddingAsZero(_)
DecodeBase64_PaddingAsZero(t) ==
    IF Len(t) = 0 THEN <<>>
    ELSE <<t[1] * 4 + t[2] \div 16,
           (t[2] % 16) * 16 + (t[3] % 64) \div 4,
           ((t[3] % 64) % 4) * 64 + (t[4] % 64)>>
         \o DecodeBase64_PaddingAsZero(SubSeq(t, 5, Len(t)))

RECURSIVE DecodeBase64(_)
DecodeBase64(t) ==
    IF Len(t) = 0 THEN <<>>
    ELSE (IF t[3] = 64 THEN <<t[1] * 4 + t[2] \div 16>>
          ELSE IF t[4] = 64 THEN
              <<t[1] * 4 + t[2] \div 16, (t[2] % 16) * 16 + t[3] \div 4>>
          ELSE <<t[1] * 4 + t[2] \div 16, (t[2] % 16) * 16 + t[3] \div 4,
                 (t[3] % 4) * 64 + t[4]>>)
         \o DecodeBase64(SubSeq(t, 5, Len(t)))

\* a Chunk has no tags: its object has the keys Data, Start, End and Index;
\* a nil Data is written as null and read back as nil
EncodeChunk(c) ==
    [Data |-> IF c.Data.isNil THEN [null |-> TRUE, text |-> <<>>]
              ELSE [null |-> FALSE, text |-> EncodeBase64(c.Data.b)],
     Start |-> EncodeInt(c.Start),
     End |-> EncodeInt(c.End),
     Index |-> EncodeInt(c.Index)]
DecodeChunk(j) ==
    [Index |-> DecodeInt(j.Index),
     Start |-> DecodeInt(j.Start),
     End |-> DecodeInt(j.End),
     Data |-> IF j.Data.null THEN NilData ELSE Data(DecodeBase64(j.Data.text))]

\* json.NewEncoder(file).Encode(d): the object with the keys of the tags
Encode(v) ==
    [url |-> EncodeString(v.URL),
     missed_chunks |->
        IF v.MissedChunks.isNil THEN [null |-> TRUE, items |-> <<>>]
        ELSE [null |-> FALSE,
              items |-> [k \in 1..Len(v.MissedChunks.s) |->
                            EncodeChunk(v.MissedChunks.s[k])]],
     total_size |-> EncodeInt(v.TotalSize),
     downloaded_size |-> EncodeInt(v.DownloadedSize)]
\* json.NewDecoder(file).Decode(&m)
Decode(j) ==
    [URL |-> DecodeString(j.url),
     MissedChunks |->
        IF j.missed_chunks.null THEN NilSlice
        ELSE Slice([k \in 1..Len(j.missed_chunks.items) |->
                       DecodeChunk(j.missed_chunks.items[k])]),
     TotalSize |-> DecodeInt(j.total_size),
     DownloadedSize |-> DecodeInt(j.downloaded_size)]

\* the file at path: missing, holding text that does not parse (empty or cut
\* short), or holding a JSON document
NoFile == [exists |-> FALSE, parses |-> FALSE, doc |-> Encode(ZeroMetadata)]
Unparsable == [exists |-> TRUE, parses |-> FALSE, doc |-> Encode(ZeroMetadata)]
JSONFile(j) == [exists |-> TRUE, parses |-> TRUE, doc |-> j]

\* no SaveMetaData or ReadMetaData call is followed
JsonIdle == d = ZeroMetadata /\ metaJSON = NoFile /\ m = NilMetadata

\* ------------------------------------------------------------------- Init
\* the state before downloadFile has done anything, inputs aside
InitRest ==
    /\ exitCause = ""
    /\ probeErr = "nil"
    /\ AcceptsRanges = TRUE
    /\ file = <<>>
    /\ fileState = "none"
    /\ fileOff = 0
    /\ r = 0
    /\ streamLog = <<>>
    /\ MissedChunks = <<>>
    /\ metaFile = "absent"
    /\ metaLog = <<>>
    /\ deferRemove = FALSE
    /\ Tasks = <<>>
    /\ Concurrency = 0
    /\ tasksch = <<>>
    /\ chClosed = FALSE
    /\ sent = 0
    /\ wg = 0
    /\ wpc = [w \in WorkerIds |-> "unborn"]
    /\ wtask = [w \in WorkerIds |-> -1]
    /\ wr = [w \in WorkerIds |-> 0]
    /\ wsnap = [w \in WorkerIds |-> <<>>]
    /\ chunks = <<>>
    /\ fetchLog = <<>>
    /\ execCount = <<>>
    /\ finished = <<>>
    /\ written = <<>>

\* the command starts: the flag and the machine are the inputs
Init ==
    /\ pc = "start"
    /\ ChunkSizeMB \in 1..MaxChunkSizeMB
    /\ NumCPU \in 1..MaxCPU
    /\ Size = 0
    /\ ChunkSize = 0
    /\ InitRest
    /\ JsonIdle

\* ------------------------------------------------- downloadFile: the probe
\* the HTTP exchanges of one probe: the HEAD request, the GET request made
\* when HEAD failed or did not answer 200, and the headers of the response
\* that is used (contentLength -1: header absent or not a number)
HttpStatuses == {200, 206, 399, 400, 404}
ProbeExchanges ==
    [headErr : BOOLEAN, headStatus : HttpStatuses,
     getErr : BOOLEAN, getStatus : HttpStatuses,
     contentLength : -1..MaxSize, acceptRanges : {"bytes", "none", ""}]

\* r, err := http.Head(url); if err != nil || r.StatusCode != http.StatusOK
\* the GET request replaces it
FinalResponse(x) ==
    IF x.headErr \/ x.headStatus # 200
    THEN [err |-> x.getErr, status |-> x.getStatus]
    ELSE [err |-> FALSE, status |-> x.headStatus]

\* (mutant) a status of exactly 400 is not taken for a failure
ProbeOf_Above400(x) ==
    IF FinalResponse(x).err \/ FinalResponse(x).status > 400
    THEN [hard |-> TRUE, size |-> 0, accepts |-> FALSE, err |-> "RequestFailed"]
    ELSE [hard |-> FALSE,
          size |-> IF x.contentLength >= 0 THEN x.contentLength ELSE 0,
          accepts |-> (x.acceptRanges = "bytes"),
          err |-> IF x.acceptRanges = "bytes" THEN "nil" ELSE "ErrRangeNotSupported"]

\* what getFileInfo returns for an exchange: a hard failure (nil descriptor)
\* when the request could not be made or the status is >= 400; otherwise the
\* descriptor with the parsed Content-Length (0 when absent or unparsable)
\* and the Accept-Ranges flag, with ErrRangeNotSupported when it is not "bytes"
ProbeOf(x) ==
    IF FinalResponse(x).err \/ FinalResponse(x).status >= 400
    THEN [hard |-> TRUE, size |-> 0, accepts |-> FALSE, err |-> "RequestFailed"]
    ELSE [hard |-> FALSE,
          size |-> IF x.contentLength >= 0 THEN x.contentLength ELSE 0,
          accepts |-> (x.acceptRanges = "bytes"),
          err |-> IF x.acceptRanges = "bytes" THEN "nil" ELSE "ErrRangeNotSupported"]

\* what getFileInfo can return
ProbeResults == {ProbeOf(x) : x \in ProbeExchanges}

\* fi, err := getFileInfo(url); log.Fatal unless err is nil or ErrRangeNotSupported
getFileInfo ==
    /\ pc = "start"
    /\ \E p \in ProbeResults :
        /\ probeErr' = p.err
        /\ Size' = p.size
        /\ AcceptsRanges' = p.accepts
        /\ IF p.err # "nil" /\ p.err # "ErrRangeNotSupported"
           THEN pc' = "fatal" /\ exitCause' = "probe"
           ELSE pc' = "create" /\ exitCause' = exitCause
    /\ UNCHANGED <<ChunkSizeMB, NumCPU, ChunkSize, file, fileState, fileOff, r, streamLog>>
    /\ UNCHANGED <<metaVars, poolVars, workerVars, chunkVars>>

\* err = fi.CreateFile(OutputDir); log.Fatal on error
CreateFile ==
    /\ pc = "create"
    /\ \E ok \in BOOLEAN :
        IF ok
        THEN /\ file' = <<>>
             /\ fileState' = "open"
             /\ fileOff' = 0
             /\ pc' = "branch"
             /\ exitCause' = exitCause
        ELSE /\ pc' = "fatal"
             /\ exitCause' = "create"
             /\ UNCHANGED <<file, fileState, fileOff>>
    /\ UNCHANGED <<ChunkSizeMB, NumCPU, probeErr, Size, AcceptsRanges, ChunkSize, r, streamLog>>
    /\ UNCHANGED <<metaVars, poolVars, workerVars, chunkVars>>

\* (mutant) a size of zero is taken for a known size
Route_ZeroIsKnown(size, accepts) ==
    IF size < 0 THEN "stream"
    ELSE IF accepts THEN "chunks"
    ELSE "meta"

\* if fi.Size <= 0 {...} else if fi.AcceptsRanges {...}
Route(size, accepts) ==
    IF size <= 0 THEN "stream"
    ELSE IF accepts THEN "chunks"
    ELSE "meta"

downloadFile_branch ==
    /\ pc = "branch"
    /\ pc' = Route(Size, AcceptsRanges)
    /\ r' = 0
    /\ ChunkSize' = IF Route(Size, AcceptsRanges) = "chunks"
                    THEN ChunkSizeMB * BytesPerMB ELSE ChunkSize
    /\ UNCHANGED <<exitCause, ChunkSizeMB, NumCPU, probeErr, Size, AcceptsRanges,
                   file, fileState, fileOff, streamLog>>
    /\ UNCHANGED <<metaVars, poolVars, workerVars, chunkVars>>

\* ------------------------------------------------------ the streaming path
\* what one StreamBufInChunks call can do: fail before any byte is copied
\* (http.Get error, status >= 400), or io.Copy k bytes of a body of length n
\* to the file, with an error exactly when the copy stopped early
StreamResults ==
    {[n |-> 0, err |-> TRUE]}
    \cup {[n |-> q[1], err |-> (q[1] < q[2])]
          : q \in {p \in (0..MaxBody) \X (0..MaxBody) : p[1] <= p[2]}}

\* if err == nil && bytesWritten != 0 { break }
StreamSucceeded(res) == ~res.err /\ res.n # 0

\* one iteration of: for r := 0; r < maxRetries; r++ { r++; ...; break on success }
StreamBufInChunks ==
    /\ pc = "stream"
    /\ r < streamMaxRetries
    /\ \E res \in StreamResults :
        /\ file' = WriteAt(file, Bytes(0, res.n - 1), fileOff)
        /\ fileOff' = fileOff + res.n
        /\ streamLog' = Append(streamLog, res)
        /\ IF StreamSucceeded(res)
           THEN pc' = "meta" /\ r' = r + 1
           ELSE pc' = "stream" /\ r' = (r + 1) + 1
    /\ UNCHANGED <<exitCause, ChunkSizeMB, NumCPU, probeErr, Size, AcceptsRanges,
                   ChunkSize, fileState>>
    /\ UNCHANGED <<metaVars, poolVars, workerVars, chunkVars>>

\* the loop condition r < maxRetries fails
StreamGiveUp ==
    /\ pc = "stream"
    /\ ~(r < streamMaxRetries)
    /\ pc' = "meta"
    /\ UNCHANGED <<exitCause, ChunkSizeMB, NumCPU, probeErr, Size, AcceptsRanges,
                   ChunkSize, file, fileState, fileOff, r, streamLog>>
    /\ UNCHANGED <<metaVars, poolVars, workerVars, chunkVars>>

\* (mutant) the larger of the two numbers instead of the smaller
PoolConcurrency_Max(n, cpus) == IF n >= cpus THEN n ELSE cpus

\* ------------------------------------------------------- the chunked path
\* DownloadInChunks up to wp.Run(): one task per chunk index, and
\* Concurrency: int(math.Min(float64(len(tasks)), float64(runtime.NumCPU())))
PoolConcurrency(n, cpus) == Min(n, cpus)

DownloadInChunks ==
    /\ pc = "chunks"
    /\ LET totalFileChunks == TotalFileChunks(Size, ChunkSize)
       IN  /\ Tasks' = [k \in 1..totalFileChunks |-> k - 1]
           /\ Concurrency' = PoolConcurrency(totalFileChunks, NumCPU)
           /\ chunks' = [i \in 0..(totalFileChunks - 1) |-> NewChunk(i)]
           /\ fetchLog' = [i \in 0..(totalFileChunks - 1) |-> <<>>]
           /\ execCount' = [i \in 0..(totalFileChunks - 1) |-> 0]
           /\ finished' = [i \in 0..(totalFileChunks - 1) |-> 0]
           /\ written' = [i \in 0..(totalFileChunks - 1) |-> 0]
    /\ pc' = "run"
    /\ UNCHANGED <<exitCause, ChunkSizeMB, NumCPU, probeErr, Size, AcceptsRanges,
                   ChunkSize, file, fileState, fileOff, r, streamLog>>
    /\ UNCHANGED <<metaVars, tasksch, chClosed, sent, wg, workerVars>>

\* ------------------------------------------------------------ WorkerPool.Run
\* make(chan Task, len(wp.Tasks)); go wp.worker() Concurrency times;
\* wp.wg.Add(len(wp.Tasks)). No worker can receive before the first send.
Run_start ==
    /\ pc = "run"
    /\ tasksch' = <<>>
    /\ chClosed' = FALSE
    /\ wpc' = [w \in WorkerIds |-> IF w <= Concurrency THEN "recv" ELSE wpc[w]]
    /\ wg' = wg + Len(Tasks)
    /\ sent' = 0
    /\ pc' = "send"
    /\ UNCHANGED <<exitCause, ChunkSizeMB, NumCPU, probeErr, Size, AcceptsRanges,
                   ChunkSize, file, fileState, fileOff, r, streamLog>>
    /\ UNCHANGED <<metaVars, Tasks, Concurrency, wtask, wr, wsnap, chunkVars>>

\* wp.tasksch <- task (the buffer holds len(wp.Tasks), so a send never blocks)
Run_send ==
    /\ pc = "send"
    /\ sent < Len(Tasks)
    /\ tasksch' = Append(tasksch, Tasks[sent + 1])
    /\ sent' = sent + 1
    /\ UNCHANGED <<mainVars, metaVars, Tasks, Concurrency, chClosed, wg, workerVars, chunkVars>>

\* (mutant) Run goes on to Wait without closing the channel
Run_close_NoClose ==
    /\ pc = "send"
    /\ sent = Len(Tasks)
    /\ pc' = "wait"
    /\ UNCHANGED <<exitCause, ChunkSizeMB, NumCPU, probeErr, Size, AcceptsRanges,
                   ChunkSize, file, fileState, fileOff, r, streamLog>>
    /\ UNCHANGED <<metaVars, Tasks, Concurrency, tasksch, chClosed, sent, wg, workerVars, chunkVars>>

\* close(wp.tasksch)
Run_close ==
    /\ pc = "send"
    /\ sent = Len(Tasks)
    /\ chClosed' = TRUE
    /\ pc' = "wait"
    /\ UNCHANGED <<exitCause, ChunkSizeMB, NumCPU, probeErr, Size, AcceptsRanges,
                   ChunkSize, file, fileState, fileOff, r, streamLog>>
    /\ UNCHANGED <<metaVars, Tasks, Concurrency, tasksch, sent, wg, workerVars, chunkVars>>

\* (mutant) Wait returns while one task is still counted
WaitDone_OneLeft(counter) == counter <= 1

\* wp.wg.Wait() returns when the counter is zero; Run and DownloadInChunks return
WaitDone(counter) == counter = 0

Run_wait ==
    /\ pc = "wait"
    /\ WaitDone(wg)
    /\ pc' = "meta"
    /\ UNCHANGED <<exitCause, ChunkSizeMB, NumCPU, probeErr, Size, AcceptsRanges,
                   ChunkSize, file, fileState, fileOff, r, streamLog>>
    /\ UNCHANGED <<metaVars, poolVars, workerVars, chunkVars>>

\* ----------------------------------------------------- WorkerPool.worker
\* for task := range wp.tasksch { task.Process() ... }: receive a task and
\* enter its ExecFunc, fi.DownloadChunk(idx, url), at c := &Chunk{Index: i}
worker_recv(w) ==
    /\ Running
    /\ wpc[w] = "recv"
    /\ tasksch # <<>>
    /\ LET i == Head(tasksch)
       IN  /\ tasksch' = Tail(tasksch)
           /\ wtask' = [wtask EXCEPT ![w] = i]
           /\ wr' = [wr EXCEPT ![w] = 0]
           /\ chunks' = [chunks EXCEPT ![i] = NewChunk(i)]
           /\ execCount' = [execCount EXCEPT ![i] = @ + 1]
    /\ wpc' = [wpc EXCEPT ![w] = "loop"]
    /\ UNCHANGED <<mainVars, metaVars, Tasks, Concurrency, chClosed, sent, wg,
                   wsnap, fetchLog, finished, written>>

\* the range loop ends: the channel is closed and drained
worker_exit(w) ==
    /\ Running
    /\ wpc[w] = "recv"
    /\ tasksch = <<>>
    /\ chClosed
    /\ wpc' = [wpc EXCEPT ![w] = "exited"]
    /\ UNCHANGED <<mainVars, metaVars, poolVars, wtask, wr, wsnap, chunkVars>>

\* ------------------------------------------------------------ Chunk.Download
\* the bodies a server can answer a ranged GET with: the requested range, an
\* empty body, or the whole resource (Range ignored)
Bodies(rg, size) == {Bytes(rg.Start, rg.End), <<>>, Bytes(0, size - 1)}

\* what one Chunk.Download call can do to c.Data, given its value before:
\* return an error before the body is read (request, transport, status >= 400)
\* leaving c.Data alone; store what io.ReadAll read of a body that broke off and
\* return its error; store the whole body and return nil
DownloadResults(rg, size, old) ==
    {[err |-> TRUE, data |-> old]}
    \cup {[err |-> TRUE, data |-> Data(p)]
          : p \in UNION {{q \in Prefixes(b) : Len(q) <= MaxPartial} \ {b}
                         : b \in Bodies(rg, size)}}
    \cup {[err |-> FALSE, data |-> Data(b)] : b \in Bodies(rg, size)}

\* how the history records a Download call: "err" (an error was returned),
\* "empty" (nil error, empty body) or "ok" (nil error, non-empty body)
Outcome(res) ==
    IF res.err THEN "err" ELSE IF Len(res.data.b) = 0 THEN "empty" ELSE "ok"

\* (mutant) the loop breaks whenever Data is set, whatever the error
AttemptSucceeded_IgnoresErr(res) == ~res.data.isNil

\* if err == nil && c.Data != nil { break }
AttemptSucceeded(res) == ~res.err /\ ~res.data.isNil

\* one iteration of the retry loop of DownloadChunk: c.Download, then break or
\* (log, sleep) r++ and the loop condition r < maxRetries
DownloadChunk_attempt(w) ==
    /\ Running
    /\ wpc[w] = "loop"
    /\ wr[w] < maxRetries
    /\ LET i == wtask[w]
           rg == ChunkRange(i, ChunkSize, Size)
       IN  \E res \in DownloadResults(rg, Size, chunks[i].Data) :
            /\ chunks' = [chunks EXCEPT ![i] =
                            [Index |-> i, Start |-> rg.Start, End |-> rg.End,
                             Data |-> res.data]]
            /\ fetchLog' = [fetchLog EXCEPT ![i] = Append(@, Outcome(res))]
            /\ IF AttemptSucceeded(res)
               THEN /\ wpc' = [wpc EXCEPT ![w] = "check"]
                    /\ wr' = wr
               ELSE /\ wr' = [wr EXCEPT ![w] = @ + 1]
                    /\ wpc' = [wpc EXCEPT ![w] =
                                 IF wr[w] + 1 < maxRetries THEN "loop" ELSE "check"]
    /\ UNCHANGED <<mainVars, metaVars, poolVars, wtask, wsnap, execCount, finished, written>>

\* if len(c.Data) == 0: the append reads the slice header of MissedChunks
IsMissed(c) == Len(c.Data.b) = 0

DownloadChunk_check(w) ==
    /\ Running
    /\ wpc[w] = "check"
    /\ IF IsMissed(chunks[wtask[w]])
       THEN /\ wsnap' = [wsnap EXCEPT ![w] = MissedChunks]
            /\ wpc' = [wpc EXCEPT ![w] = "append"]
       ELSE /\ wsnap' = wsnap
            /\ wpc' = [wpc EXCEPT ![w] = "write"]
    /\ UNCHANGED <<mainVars, metaVars, poolVars, wtask, wr, chunkVars>>

\* fi.Metadata.MissedChunks = append(<the header read>, *c): the unguarded
\* write of the new header; an append made by another worker in between is lost
DownloadChunk_append(w) ==
    /\ Running
    /\ wpc[w] = "append"
    /\ MissedChunks' = Append(wsnap[w], chunks[wtask[w]])
    /\ wpc' = [wpc EXCEPT ![w] = "write"]
    /\ UNCHANGED <<mainVars, metaFile, metaLog, deferRemove, jsonVars, poolVars, wtask, wr,
                   wsnap, chunkVars>>

\* ----------------------------------------------------------- Chunk.WriteToFile
\* err := c.WriteToFile(fi.File); log.Fatal on error. A nil Data is an error;
\* otherwise f.WriteAt(c.Data, c.Start) and os.Stat can each fail
WriteResults == {"ok", "WriteAtFailed", "StatFailed"}

WriteToFile(w) ==
    /\ Running
    /\ wpc[w] = "write"
    /\ LET i == wtask[w]
           c == chunks[i]
       IN  IF c.Data.isNil
           THEN /\ pc' = "fatal"
                /\ exitCause' = "Chunk is nil or has no data"
                /\ UNCHANGED <<file, written, wpc>>
           ELSE \E res \in WriteResults :
                /\ file' = IF res = "WriteAtFailed" THEN file
                           ELSE WriteAt(file, c.Data.b, c.Start)
                /\ IF res = "ok"
                   THEN /\ written' = [written EXCEPT ![i] = @ + 1]
                        /\ wpc' = [wpc EXCEPT ![w] = "done"]
                        /\ UNCHANGED <<pc, exitCause>>
                   ELSE /\ pc' = "fatal"
                        /\ exitCause' = res
                        /\ UNCHANGED <<written, wpc>>
    /\ UNCHANGED <<ChunkSizeMB, NumCPU, probeErr, Size, AcceptsRanges, ChunkSize,
                   fileState, fileOff, r, streamLog>>
    /\ UNCHANGED <<metaVars, poolVars, wtask, wr, wsnap, chunks, fetchLog, execCount, finished>>

\* DownloadChunk returns, then wp.wg.Done()
worker_done(w) ==
    /\ Running
    /\ wpc[w] = "done"
    /\ finished' = [finished EXCEPT ![wtask[w]] = @ + 1]
    /\ wg' = wg - 1
    /\ wpc' = [wpc EXCEPT ![w] = "recv"]
    /\ UNCHANGED <<mainVars, metaVars, Tasks, Concurrency, tasksch, chClosed, sent,
                   wtask, wr, wsnap, chunks, fetchLog, execCount, written>>

\* ------------------------------------------------- downloadFile: the end
\* (mutant) the side file is saved whether or not a chunk was missed
NeedsMetaData_Always(missed) == Len(missed) >= 0

\* if len(fi.Metadata.MissedChunks) > 0
NeedsMetaData(missed) == Len(missed) > 0

\* fi.SaveMetaData(fi.Metadata, p): os.Create can fail, and the result is
\* dropped (the err tested next is CreateFile's, nil here); defer os.Remove(p)
downloadFile_meta ==
    /\ pc = "meta"
    /\ IF NeedsMetaData(MissedChunks)
       THEN \E created \in BOOLEAN :
            /\ metaFile' = IF created THEN "present" ELSE metaFile
            /\ metaLog' = Append(metaLog, created)
            /\ deferRemove' = TRUE
       ELSE UNCHANGED <<metaFile, metaLog, deferRemove>>
    /\ pc' = "finish"
    /\ UNCHANGED <<exitCause, ChunkSizeMB, NumCPU, probeErr, Size, AcceptsRanges,
                   ChunkSize, file, fileState, fileOff, r, streamLog>>
    /\ UNCHANGED <<MissedChunks, jsonVars, poolVars, workerVars, chunkVars>>

\* the side file after the deferred calls of downloadFile have run
AfterDefers(f, removeDeferred) == IF removeDeferred THEN "absent" ELSE f

\* "File downloaded Successfully ..." is printed and downloadFile returns:
\* the deferred fi.File.Close() and os.Remove(p) run
downloadFile_return ==
    /\ pc = "finish"
    /\ fileState' = "closed"
    /\ metaFile' = AfterDefers(metaFile, deferRemove)
    /\ pc' = "done"
    /\ UNCHANGED <<exitCause, ChunkSizeMB, NumCPU, probeErr, Size, AcceptsRanges,
                   ChunkSize, file, fileOff, r, streamLog>>
    /\ UNCHANGED <<MissedChunks, metaLog, deferRemove, jsonVars, poolVars, workerVars, chunkVars>>

\* ------------------------------------------------------------------- Next
Next ==
    \/ getFileInfo
    \/ CreateFile
    \/ downloadFile_branch
    \/ StreamBufInChunks
    \/ StreamGiveUp
    \/ DownloadInChunks
    \/ Run_start
    \/ Run_send
    \/ Run_close
    \/ Run_wait
    \/ \E w \in WorkerIds : worker_recv(w)
    \/ \E w \in WorkerIds : worker_exit(w)
    \/ \E w \in WorkerIds : DownloadChunk_attempt(w)
    \/ \E w \in WorkerIds : DownloadChunk_check(w)
    \/ \E w \in WorkerIds : DownloadChunk_append(w)
    \/ \E w \in WorkerIds : WriteToFile(w)
    \/ \E w \in WorkerIds : worker_done(w)
    \/ downloadFile_meta
    \/ downloadFile_return

Spec == Init /\ [][Next]_vars

\* ---------------------------------------------- the range computation alone
\* Chunk.Download's range computation, applied to the chunk indices
\* 0 .. totalFileChunks-1 of DownloadInChunks in turn, for any size > 0 and
\* any positive chunk size
InitRanges ==
    /\ pc = "ranges"
    /\ ChunkSizeMB = 1
    /\ NumCPU = 1
    /\ Size \in 1..MaxRangeSize
    /\ ChunkSize \in 1..MaxRangeChunkSize
    /\ InitRest
    /\ JsonIdle

Download_range ==
    /\ pc = "ranges"
    /\ LET i == Cardinality(DOMAIN chunks)
           rg == ChunkRange(i, ChunkSize, Size)
       IN  /\ i < TotalFileChunks(Size, ChunkSize)
           /\ chunks' = [k \in 0..i |->
                           IF k < i THEN chunks[k]
                           ELSE [Index |-> i, Start |-> rg.Start, End |-> rg.End,
                                 Data |-> NilData]]
    /\ UNCHANGED <<mainVars, metaVars, poolVars, workerVars, fetchLog, execCount,
                   finished, written>>

NextRanges == Download_range

SpecRanges == InitRanges /\ [][NextRanges]_vars

\* -------------------------------------------- WorkerPool.Run under fairness
\* the largest resource of the runs checked under fairness
MaxPoolSize == 3

\* the state in which downloadFile enters DownloadInChunks: the probe has
\* returned a size and range support, and the output file is created and open
InitPool ==
    /\ pc = "chunks"
    /\ ChunkSizeMB \in 1..MaxChunkSizeMB
    /\ NumCPU \in 1..MaxCPU
    /\ Size \in 1..MaxPoolSize
    /\ ChunkSize = ChunkSizeMB * BytesPerMB
    /\ exitCause = ""
    /\ probeErr = "nil"
    /\ AcceptsRanges = TRUE
    /\ file = <<>>
    /\ fileState = "open"
    /\ fileOff = 0
    /\ r = 0
    /\ streamLog = <<>>
    /\ MissedChunks = <<>>
    /\ metaFile = "absent"
    /\ metaLog = <<>>
    /\ deferRemove = FALSE
    /\ Tasks = <<>>
    /\ Concurrency = 0
    /\ tasksch = <<>>
    /\ chClosed = FALSE
    /\ sent = 0
    /\ wg = 0
    /\ wpc = [w \in WorkerIds |-> "unborn"]
    /\ wtask = [w \in WorkerIds |-> -1]
    /\ wr = [w \in WorkerIds |-> 0]
    /\ wsnap = [w \in WorkerIds |-> <<>>]
    /\ chunks = <<>>
    /\ fetchLog = <<>>
    /\ execCount = <<>>
    /\ finished = <<>>
    /\ written = <<>>
    /\ JsonIdle

\* what the main goroutine does inside DownloadInChunks and Run
RunSteps == DownloadInChunks \/ Run_start \/ Run_send \/ Run_close \/ Run_wait
\* what worker goroutine w does
WorkerSteps(w) ==
    \/ worker_recv(w)
    \/ worker_exit(w)
    \/ DownloadChunk_attempt(w)
    \/ DownloadChunk_check(w)
    \/ DownloadChunk_append(w)
    \/ WriteToFile(w)
    \/ worker_done(w)

\* the Go scheduler runs every goroutine that stays runnable
Fairness ==
    /\ WF_vars(RunSteps)
    /\ \A w \in WorkerIds : WF_vars(WorkerSteps(w))

\* DownloadInChunks from its entry to the return of Run; the caller of Run is
\* left out, so the process lives on after Run has returned
NextPool ==
    \/ DownloadInChunks
    \/ Run_start
    \/ Run_send
    \/ Run_close
    \/ Run_wait
    \/ \E w \in WorkerIds : worker_recv(w)
    \/ \E w \in WorkerIds : worker_exit(w)
    \/ \E w \in WorkerIds : DownloadChunk_attempt(w)
    \/ \E w \in WorkerIds : DownloadChunk_check(w)
    \/ \E w \in WorkerIds : DownloadChunk_append(w)
    \/ \E w \in WorkerIds : WriteToFile(w)
    \/ \E w \in WorkerIds : worker_done(w)

FairPool == InitPool /\ [][NextPool]_vars /\ Fairness

\* ------------------------------------- SaveMetaData, then ReadMetaData
\* the bytes of the URLs checked: 'h', '"', '&' and a byte that is not UTF-8
URLBytes == {104, 34, 38, 255}
\* the chunks of the lists checked: nil, empty and non-empty payloads
MetaChunks ==
    {[Index |-> 0, Start |-> 0, End |-> 9, Data |-> NilData],
     [Index |-> 1, Start |-> 10, End |-> 19, Data |-> Data(<<>>)],
     [Index |-> 2, Start |-> 20, End |-> 20, Data |-> Data(<<1>>)],
     [Index |-> 12, Start |-> 120, End |-> 121, Data |-> Data(<<255, 0>>)],
     [Index |-> 3, Start |-> 30, End |-> 33, Data |-> Data(<<1, 2, 3, 4>>)]}
MetaSizes == {0, 130}
MetaValues ==
    [URL : SeqsUpTo(URLBytes, MaxURLLen),
     MissedChunks : {NilSlice} \cup {Slice(s) : s \in SeqsUpTo(MetaChunks, MaxMissed)},
     TotalSize : MetaSizes,
     DownloadedSize : MetaSizes]

\* a FileMetadata is about to be saved to a path where no file exists
InitMeta ==
    /\ pc = "save"
    /\ ChunkSizeMB = 1
    /\ NumCPU = 1
    /\ Size = 0
    /\ ChunkSize = 0
    /\ InitRest
    /\ d \in MetaValues
    /\ metaJSON = NoFile
    /\ m = NilMetadata

\* SaveMetaData(d, path): os.Create can fail, and the write of the encoded
\* document can fail and leave the file cut short
SaveMetaData ==
    /\ pc = "save"
    /\ \E created, complete \in BOOLEAN :
        /\ metaJSON' = IF ~created THEN metaJSON
                       ELSE IF complete THEN JSONFile(Encode(d))
                       ELSE Unparsable
        /\ pc' = IF created /\ complete THEN "saved" ELSE "saveFailed"
    /\ UNCHANGED <<exitCause, ChunkSizeMB, NumCPU, probeErr, Size, AcceptsRanges,
                   ChunkSize, file, fileState, fileOff, r, streamLog>>
    /\ UNCHANGED <<MissedChunks, metaFile, metaLog, deferRemove, d, m>>
    /\ UNCHANGED <<poolVars, workerVars, chunkVars>>

\* ReadMetaData(path): nil when os.Open or Decode fails, else the decoded value
ReadMetaData ==
    /\ pc \in {"save", "saved", "saveFailed"}
    /\ \E opened \in BOOLEAN :
        IF opened /\ metaJSON.exists /\ metaJSON.parses
        THEN /\ m' = [isNil |-> FALSE, v |-> Decode(metaJSON.doc)]
             /\ pc' = "read"
        ELSE /\ m' = NilMetadata
             /\ pc' = "notRead"
    /\ UNCHANGED <<exitCause, ChunkSizeMB, NumCPU, probeErr, Size, AcceptsRanges,
                   ChunkSize, file, fileState, fileOff, r, streamLog>>
    /\ UNCHANGED <<MissedChunks, metaFile, metaLog, deferRemove, d, metaJSON>>
    /\ UNCHANGED <<poolVars, workerVars, chunkVars>>

NextMeta == SaveMetaData \/ ReadMetaData

SpecMeta == InitMeta /\ [][NextMeta]_vars

\* ================================================================== claims
\* main is past WorkerPool.Run (DownloadInChunks has returned)
RunReturned == pc \in {"meta", "finish", "done"} /\ Len(Tasks) > 0

\* C1: WorkerPool.Run executes every task of the list exactly once (none is
\* dropped, none is executed twice, whatever the interleaving of the workers)
\* and returns only after every task has finished executing.
C1_RunEveryTaskOnce ==
    /\ \A i \in DOMAIN execCount : execCount[i] <= 1 /\ finished[i] <= execCount[i]
    /\ Len(tasksch) + Cardinality({i \in DOMAIN execCount : execCount[i] > 0}) = sent
    /\ RunReturned =>
         /\ \A k \in 1..Len(Tasks) :
               execCount[Tasks[k]] = 1 /\ finished[Tasks[k]] = 1
         /\ \A w \in WorkerIds : wpc[w] \in {"unborn", "recv", "exited"}
         /\ tasksch = <<>>

\* Run has returned from three tasks run by two workers
C1_Witness ==
    /\ pc = "meta"
    /\ Len(Tasks) = 3
    /\ Concurrency = 2
    /\ \A i \in DOMAIN finished : finished[i] = 1

\* C2: for every size > 0 and positive chunk size the ranges computed for the
\* indices 0 .. ceil(size/chunkSize)-1 are start = i*chunkSize and
\* end = min(start+chunkSize-1, size-1), and they partition [0, size): every
\* offset lies in exactly one range, none is empty or inverted; size 10,000,000
\* with chunk size 1,000,000 gives 10 ranges tiling [0, 10000000).
C2_RangesPartition ==
    /\ pc = "ranges" =>
        /\ \A i \in DOMAIN chunks :
            /\ chunks[i].Start = i * ChunkSize
            /\ chunks[i].End = Min(chunks[i].Start + ChunkSize - 1, Size - 1)
            /\ chunks[i].Start <= chunks[i].End
        /\ Cardinality(DOMAIN chunks) = TotalFileChunks(Size, ChunkSize) =>
            \A off \in 0..(Size - 1) :
                Cardinality({i \in DOMAIN chunks :
                               chunks[i].Start <= off /\ off <= chunks[i].End}) = 1
    /\ TotalFileChunks(10000000, 1000000) = 10
    /\ LET rg(i) == ChunkRange(i, 1000000, 10000000)
       IN  /\ rg(0).Start = 0
           /\ rg(9).End = 10000000 - 1
           /\ \A i \in 0..9 : rg(i).Start = i * 1000000 /\ rg(i).Start <= rg(i).End
           /\ \A i \in 0..8 : rg(i + 1).Start = rg(i).End + 1

\* all ranges of a size that is no multiple of the chunk size are computed
C2_Witness ==
    /\ pc = "ranges"
    /\ Size = 11
    /\ ChunkSize = 4
    /\ Cardinality(DOMAIN chunks) = 3
    /\ chunks[2].End = 10

\* the main goroutine is past the branch of downloadFile
PastBranch == pc \in {"meta", "finish", "done"}

\* C3: with a known size (> 0) and no byte-range support the download is made
\* by the streaming path, as for an unknown size: the body is streamed into
\* the output file before the run reports completion.
C3_KnownSizeNoRangesStreams ==
    (PastBranch /\ Size > 0 /\ ~AcceptsRanges) => Len(streamLog) > 0

\* C4: with an unknown or zero size the download goes to the streaming path
\* and no chunk task is ever created or dispatched, also when the server
\* answers Accept-Ranges: bytes.
C4_UnknownSizeStreams ==
    Size <= 0 =>
        /\ pc \notin {"chunks", "run", "send", "wait"}
        /\ Tasks = <<>> /\ tasksch = <<>> /\ sent = 0
        /\ DOMAIN chunks = {} /\ DOMAIN execCount = {}
        /\ \A w \in WorkerIds : wpc[w] = "unborn"
        /\ PastBranch => Len(streamLog) > 0

\* a run with Accept-Ranges: bytes and Content-Length 0 ended after streaming
C4_Witness ==
    /\ pc = "done"
    /\ probeErr = "nil" /\ AcceptsRanges /\ Size = 0
    /\ Len(streamLog) > 0
    /\ file # <<>>

\* every Download call of chunk i returned an error, maxRetries times
AllAttemptsFailed(i) ==
    /\ Len(fetchLog[i]) = maxRetries
    /\ \A k \in 1..maxRetries : fetchLog[i][k] = "err"
\* the number of entries of MissedChunks for chunk i
MissedCount(i) == Cardinality({k \in 1..Len(MissedChunks) : MissedChunks[k].Index = i})

\* C5: once the pool has drained, every chunk whose three attempts all
\* returned an error is in MissedChunks exactly once, whatever the
\* interleaving of the workers (no append lost, none duplicated).
C5_MissedExactlyOnce ==
    RunReturned => \A i \in DOMAIN fetchLog : AllAttemptsFailed(i) => MissedCount(i) = 1

\* the part of C5 that is about the append alone: every chunk a worker
\* appended is in MissedChunks once the pool has drained
C5_NoAppendLost ==
    RunReturned => \A i \in DOMAIN chunks : IsMissed(chunks[i]) => MissedCount(i) = 1

\* C6: a chunk that fails all its attempts is a non-fatal, per-chunk outcome:
\* the run is not aborted because of it, the other chunks are still fetched
\* and written, and the run reaches its normal end.
C6_MissedChunkNotFatal ==
    \A w \in WorkerIds :
        (wpc[w] \in {"write", "done"} /\ AllAttemptsFailed(wtask[w]))
            => ~(pc = "fatal" /\ exitCause = "Chunk is nil or has no data")

\* the retry loop of chunk i is over
LoopOver(i) ==
    /\ execCount[i] > 0
    /\ \A w \in WorkerIds : wtask[w] = i => wpc[w] # "loop"

\* the first three parts of C7, common to the claim and its amended form
C7_Attempts ==
    \A i \in DOMAIN fetchLog :
        /\ Len(fetchLog[i]) <= maxRetries
        /\ \A k \in 1..(Len(fetchLog[i]) - 1) : fetchLog[i][k] = "err"
        /\ LoopOver(i) =>
              \/ Len(fetchLog[i]) = maxRetries
              \/ fetchLog[i][Len(fetchLog[i])] # "err"

\* the chunk of a finished task has its payload, was written, is not missed
Delivered(i) ==
    /\ ~chunks[i].Data.isNil
    /\ Len(chunks[i].Data.b) > 0
    /\ written[i] = 1
    /\ MissedCount(i) = 0

C8_StreamThreeAttempts ==
    /\ Len(streamLog) <= streamMaxRetries
    /\ \A k \in 1..(Len(streamLog) - 1) : ~StreamSucceeded(streamLog[k])
    /\ (PastBranch /\ Len(streamLog) > 0) =>
          \/ Len(streamLog) = streamMaxRetries
          \/ StreamSucceeded(streamLog[Len(streamLog)])

\* C9: if every streaming attempt fails, the exhaustion is a fatal error for
\* the caller: the run does not end in the normal success state and does not
\* report the file as downloaded.
C9_StreamExhaustionFatal ==
    (pc \in {"finish", "done"} /\ Len(streamLog) > 0)
        => \E k \in 1..Len(streamLog) : StreamSucceeded(streamLog[k])

\* os.Create of the side file has succeeded at some point
MetaWritten == \E k \in 1..Len(metaLog) : metaLog[k]
\* the pool has drained: no task is counted, queued or running
Drained ==
    /\ wg = 0 /\ tasksch = <<>>
    /\ \A w \in WorkerIds : wpc[w] \in {"unborn", "recv", "exited"}

\* the parts of C10 common to the claim and its amended form: the side file
\* is saved only after the pool has drained and only with a missed chunk, and
\* it is gone at the end of the run
C10_OnlyIfAndRemoved ==
    /\ (metaLog # <<>> \/ metaFile = "present" \/ deferRemove) =>
          /\ pc \in {"finish", "done"}
          /\ Drained
          /\ Len(MissedChunks) > 0
          /\ Len(metaLog) = 1
    /\ pc = "done" => metaFile = "absent"

WriteExtent(i) ==
    IF written[i] = 0 THEN {}
    ELSE {chunks[i].Start + k - 1 : k \in 1..Len(chunks[i].Data.b)}

\* C11: every positioned write of a chunk task starts at the chunk's start
\* offset and covers only bytes of its own range [start_i, end_i], so the
\* writes of two different chunk tasks never overlap, whatever the length of
\* the body the server returned.
C11_WritesInsideOwnRange ==
    /\ \A i \in DOMAIN written :
          written[i] > 0 =>
             /\ chunks[i].Start = ChunkRange(i, ChunkSize, Size).Start
             /\ WriteExtent(i) \subseteq
                   ChunkRange(i, ChunkSize, Size).Start ..
                   ChunkRange(i, ChunkSize, Size).End
    /\ \A i, j \in DOMAIN written :
          i # j => WriteExtent(i) \cap WriteExtent(j) = {}

\* the fetch of chunk i ended with an attempt that returned, without error,
\* exactly the bytes of the chunk's range
FetchedExactRange(i) ==
    /\ fetchLog[i] # <<>>
    /\ fetchLog[i][Len(fetchLog[i])] = "ok"
    /\ chunks[i].Data.b = Bytes(ChunkRange(i, ChunkSize, Size).Start,
                                ChunkRange(i, ChunkSize, Size).End)

\* C12: on the chunked path, if the fetch of every chunk succeeds within its
\* retry budget with exactly the requested range, the output file holds
\* exactly the Size bytes of the resource, each at its source offset, when
\* DownloadInChunks returns, whatever the order in which the chunks completed.
C12_ExactRangesGiveWholeFile ==
    (RunReturned /\ \A i \in DOMAIN chunks : FetchedExactRange(i)) =>
        file = Bytes(0, Size - 1)

\* three chunks fetched by two workers, one of them after a failed attempt,
\* have produced the whole 5-byte resource
C12_Witness ==
    /\ pc = "meta"
    /\ Len(Tasks) = 3 /\ Concurrency = 2 /\ Size = 5
    /\ \A i \in DOMAIN chunks : FetchedExactRange(i)
    /\ \E i \in DOMAIN chunks : Len(fetchLog[i]) > 1
    /\ file = Bytes(0, Size - 1)

\* the workers that are inside a chunk task (fetching, sleeping between
\* attempts, recording, writing, or about to call wg.Done)
Executing == {w \in WorkerIds : wpc[w] \in {"loop", "check", "append", "write", "done"}}
\* the worker goroutines Run has started
Started == {w \in WorkerIds : wpc[w] # "unborn"}

\* C13: at every moment of a chunked download at most
\* min(chunkCount, number of processors) chunk tasks execute at once; a chunk
\* that retries stays with the worker that received it, and no worker beyond
\* that number is ever started.
C13_BoundedParallelism ==
    IF Tasks = <<>> THEN Started = {}
    ELSE
        /\ Cardinality(Executing) <= Min(TotalFileChunks(Size, ChunkSize), NumCPU)
        /\ Cardinality(Started) <= Min(TotalFileChunks(Size, ChunkSize), NumCPU)
        /\ \A i \in DOMAIN execCount :
              Cardinality({w \in Executing : wtask[w] = i}) =
                 (IF execCount[i] > finished[i] THEN 1 ELSE 0)

\* two workers are inside chunk tasks at once, one of them in a retry, while
\* a third chunk waits in the channel
C13_Witness ==
    /\ Cardinality(Executing) = 2
    /\ NumCPU = 2 /\ Len(Tasks) = 3
    /\ \E w \in Executing : wr[w] > 0 /\ wpc[w] = "loop"
    /\ tasksch # <<>>

\* C14: provided every task terminates (none ends the process with
\* log.Fatal) and Concurrency >= 1, Run eventually returns, every worker
\* goroutine it started eventually exits once the channel is closed and
\* drained, so none stays blocked on the receive forever, and no worker
\* receives a task once the channel is closed and empty.
C14_RunReturnsWorkersExit ==
    /\ (pc = "chunks") ~> (pc = "meta" \/ pc = "fatal")
    /\ \A w \in WorkerIds :
          (wpc[w] # "unborn") ~> (wpc[w] = "exited" \/ pc = "fatal")
    /\ [][(chClosed /\ tasksch = <<>>) =>
             (execCount' = execCount /\ tasksch' = tasksch)]_vars

\* Run has returned from two tasks and both workers it started have exited
C14_Witness ==
    /\ pc = "meta"
    /\ Len(Tasks) = 2 /\ Concurrency = 2
    /\ chClosed /\ tasksch = <<>>
    /\ \A w \in 1..Concurrency : wpc[w] = "exited"
    /\ \A i \in DOMAIN finished : finished[i] = 1

\* the three outcomes of the prober, exchange by exchange
ProbeOutcomes ==
    \A x \in ProbeExchanges :
        LET failed == IF x.headErr \/ x.headStatus # 200
                      THEN x.getErr \/ x.getStatus >= 400
                      ELSE FALSE
            p == ProbeOf(x)
        IN  /\ failed => p.hard /\ p.err \notin {"nil", "ErrRangeNotSupported"}
            /\ (~failed /\ x.acceptRanges # "bytes") =>
                  /\ ~p.hard /\ ~p.accepts /\ p.err = "ErrRangeNotSupported"
                  /\ p.size = (IF x.contentLength >= 0 THEN x.contentLength ELSE 0)
            /\ (~failed /\ x.acceptRanges = "bytes") =>
                  /\ ~p.hard /\ p.accepts /\ p.err = "nil"
                  /\ p.size = (IF x.contentLength >= 0 THEN x.contentLength ELSE 0)

\* C15: the prober has three outcomes. A request that cannot be made or a
\* final status >= 400 is a hard failure without descriptor, and the run
\* stops before any file is created; an Accept-Ranges header other than
\* "bytes" gives the descriptor with AcceptsRanges false together with
\* ErrRangeNotSupported, and the run continues; otherwise the descriptor has
\* AcceptsRanges true and there is no error.
C15_ProbeThreeOutcomes ==
    /\ pc = "start" => ProbeOutcomes
    /\ pc # "start" =>
          /\ probeErr \in {"RequestFailed", "ErrRangeNotSupported", "nil"}
          /\ probeErr = "RequestFailed" =>
                /\ pc = "fatal" /\ exitCause = "probe"
                /\ fileState = "none" /\ file = <<>>
          /\ probeErr = "ErrRangeNotSupported" =>
                /\ ~AcceptsRanges
                /\ exitCause # "probe"
                /\ pc = "fatal" => exitCause = "create"
          /\ probeErr = "nil" =>
                /\ AcceptsRanges
                /\ exitCause # "probe"

\* a run whose probe returned ErrRangeNotSupported has gone on to create the
\* output file
C15_Witness ==
    /\ probeErr = "ErrRangeNotSupported"
    /\ ~AcceptsRanges
    /\ Size > 0
    /\ fileState = "open"
    /\ pc = "branch"

\* the parts of C16 that hold for every value: ReadMetaData returns nil when
\* the file could not be opened or parsed, and a value only from a file that
\* SaveMetaData has written completely
C16_NilOrSaved ==
    /\ pc = "notRead" => m.isNil
    /\ pc = "read" => ~m.isNil /\ metaJSON = JSONFile(Encode(d))
    /\ pc \in {"save", "saved", "saveFailed"} => m.isNil

\* C16 as claimed: for every FileMetadata, SaveMetaData followed by
\* ReadMetaData returns a record with identical URL, total size, downloaded
\* size and missed-chunk list (same chunks, same order), and ReadMetaData
\* returns nil whenever the file cannot be opened or parsed.
C16_RoundTrip ==
    /\ C16_NilOrSaved
    /\ pc = "read" => m.v = d

\* C16 amended: the same for every FileMetadata whose URL is valid UTF-8
C16_RoundTripValidUTF8 ==
    /\ C16_NilOrSaved
    /\ (pc = "read" /\ ValidUTF8(d.URL)) =>
          /\ m.v.URL = d.URL
          /\ m.v.TotalSize = d.TotalSize
          /\ m.v.DownloadedSize = d.DownloadedSize
          /\ m.v.MissedChunks = d.MissedChunks

\* a record with an escaped URL and two different missed chunks, one with a
\* payload, has been saved and read back unchanged
C16_Witness ==
    /\ pc = "read"
    /\ d.URL = <<104, 34>>
    /\ d.TotalSize = 130
    /\ Len(d.MissedChunks.s) = 2
    /\ d.MissedChunks.s[1].Index = 12
    /\ d.MissedChunks.s[2].Index = 0
    /\ m.v = d

\* C17: a chunk is recorded in MissedChunks only if its fetch failed on every
\* one of the 3 attempts: never after fewer than 3 attempts, and never after
\* an attempt that returned without error, an empty body included.
C17_MissedOnlyAfterThreeFailures ==
    \A k \in 1..Len(MissedChunks) :
        LET log == fetchLog[MissedChunks[k].Index]
        IN  /\ Len(log) = maxRetries
            /\ \A j \in 1..Len(log) : log[j] = "err"

\* C18: after DownloadInChunks has returned no chunk task writes to the file
\* and no worker appends to MissedChunks, so the MissedChunks check, the save
\* of the metadata and the close of the output file all come strictly after
\* the last chunk task has finished.
C18_QuiescentAfterReturn ==
    /\ [](RunReturned =>
            /\ \A i \in DOMAIN finished : finished[i] = 1
            /\ \A w \in WorkerIds : wpc[w] \in {"unborn", "recv", "exited"})
    /\ []((Len(Tasks) > 0 /\ (metaLog # <<>> \/ fileState = "closed")) => RunReturned)
    /\ [][RunReturned =>
            (file' = file /\ MissedChunks' = MissedChunks /\ written' = written)]_vars

\* the run has ended after a chunked download with a missed chunk: the file
\* is closed and the metadata was saved after both tasks had finished
C18_Witness ==
    /\ pc = "done"
    /\ fileState = "closed"
    /\ Len(Tasks) = 2 /\ Concurrency = 2
    /\ Len(MissedChunks) > 0
    /\ metaLog # <<>>
    /\ \E i \in DOMAIN written : written[i] = 1

\* C19: whenever DownloadInChunks is entered with Size > 0 and a positive
\* chunk size, the chunk count is at least 1 and 1 <= Concurrency <= chunk
\* count, so the pool is never started with tasks queued and no worker.
C19_PoolHasWorkers ==
    /\ pc = "chunks" => Size > 0 /\ ChunkSize > 0
    /\ pc \in {"run", "send", "wait"} =>
          /\ Len(Tasks) = TotalFileChunks(Size, ChunkSize)
          /\ Len(Tasks) >= 1
          /\ 1 <= Concurrency /\ Concurrency <= Len(Tasks)
    /\ pc \in {"send", "wait"} =>
          Cardinality({w \in WorkerIds : wpc[w] # "unborn"}) = Concurrency

\* Run is about to start for a resource smaller than one chunk: one task,
\* one worker, on a machine with two processors
C19_Witness ==
    /\ pc = "run"
    /\ Size = 1 /\ ChunkSize = 4
    /\ NumCPU = 2
    /\ Len(Tasks) = 1
    /\ Concurrency = 1

\* C20: on the streaming path, when an attempt succeeds after one or more
\* failed attempts, the output file holds exactly the body of the successful
\* attempt from offset 0 on: no byte written by an earlier failed attempt
\* remains in front of it or mixed into it.
C20_StreamRetryStartsOver ==
    (/\ pc \in {"meta", "finish", "done"}
     /\ Len(streamLog) > 1
     /\ StreamSucceeded(streamLog[Len(streamLog)])) =>
        file = Bytes(0, streamLog[Len(streamLog)].n - 1)

====
